---- MODULE Spec2Model ----
(***************************************************************************)
(* Model of spotify-playlist-test/app.py: one run of main(), which parses  *)
(* a playlist link, fetches the playlist metadata, collects the playlist's *)
(* entries page by page (get_all_tracks), enriches every entry with one    *)
(* artist lookup, builds the table and hands it to visualize_data.         *)
(*                                                                         *)
(* Strings are sequences of tokens.  A token is a piece of text that the   *)
(* code never looks inside: one character where the code works on          *)
(* characters (dates, "/" and "?" of a link), a whole word elsewhere.      *)
(***************************************************************************)
EXTENDS Integers, Sequences, FiniteSets, TLC

\* ------------------------------------------------------------------ bounds
\* largest playlist of a stand-alone get_all_tracks call
MaxN == 250
\* largest playlist of a whole run of main()
MaxTracks == 3

\* --------------------------------------------------------- python values
\* A python value: None, an int, a str, NaN, or the absence of a dict key.
PyNone == [t |-> "None", i |-> 0, s |-> <<>>]
PyNaN == [t |-> "nan", i |-> 0, s |-> <<>>]
Absent == [t |-> "absent", i |-> 0, s |-> <<>>]
PyInt(n) == [t |-> "int", i |-> n, s |-> <<>>]
PyStr(str) == [t |-> "str", i |-> 0, s |-> str]

\* dict.get(key, default): the default only when the key is absent
DictGet(v, default) == IF v.t = "absent" THEN default ELSE v

Min(a, b) == IF a < b THEN a ELSE b

\* s[:n]
Prefix(s, n) == SubSeq(s, 1, Min(n, Len(s)))

\* ---------------------------------------------------------------- str.split
\* index of the first occurrence of token c in s at or after i, 0 if none
RECURSIVE Find(_, _, _)
Find(s, c, i) ==
    IF i > Len(s) THEN 0
    ELSE IF s[i] = c THEN i
    ELSE Find(s, c, i + 1)

\* s.split(c): the pieces between the occurrences of c, at least one piece
RECURSIVE Split(_, _)
Split(s, c) ==
    LET k == Find(s, c, 1)
    IN IF k = 0 THEN <<s>>
       ELSE <<SubSeq(s, 1, k - 1)>> \o Split(SubSeq(s, k + 1, Len(s)), c)

\* sub in s
Contains(s, sub) ==
    \E k \in 0..(Len(s) - Len(sub)) : SubSeq(s, k + 1, k + Len(sub)) = sub

\* playlist_link.split("/")[-1].split("?")[0]
ParseUri(link) ==
    LET segs == Split(link, "/")
    IN Split(segs[Len(segs)], "?")[1]

\* ---------------------------------------------------------------- int(str)
Digits == <<"0", "1", "2", "3", "4", "5", "6", "7", "8", "9">>
IsDigit(c) == \E d \in 1..10 : Digits[d] = c
DigitVal(c) == (CHOOSE d \in 1..10 : Digits[d] = c) - 1

RECURSIVE LStrip(_)
LStrip(s) == IF Len(s) > 0 /\ s[1] = " " THEN LStrip(Tail(s)) ELSE s

RECURSIVE RStrip(_)
RStrip(s) ==
    IF Len(s) > 0 /\ s[Len(s)] = " " THEN RStrip(SubSeq(s, 1, Len(s) - 1)) ELSE s

\* digits, with single underscores allowed between two digits
DigitsOk(s) ==
    /\ Len(s) > 0
    /\ \A k \in 1..Len(s) :
          \/ IsDigit(s[k])
          \/ /\ s[k] = "_"
             /\ k > 1 /\ k < Len(s)
             /\ IsDigit(s[k - 1]) /\ IsDigit(s[k + 1])

RECURSIVE DigitsValue(_, _)
DigitsValue(s, acc) ==
    IF Len(s) = 0 THEN acc
    ELSE IF s[1] = "_" THEN DigitsValue(Tail(s), acc)
    ELSE DigitsValue(Tail(s), 10 * acc + DigitVal(s[1]))

\* int(s) for a str s: [ok |-> FALSE] stands for ValueError
IntParse(s) ==
    LET b == RStrip(LStrip(s))
        signed == Len(b) > 0 /\ b[1] \in {"-", "+"}
        body == IF signed THEN Tail(b) ELSE b
    IN IF DigitsOk(body)
       THEN [ok |-> TRUE,
             v |-> IF signed /\ b[1] = "-" THEN 0 - DigitsValue(body, 0)
                   ELSE DigitsValue(body, 0)]
       ELSE [ok |-> FALSE, v |-> 0]

\* try: release_year = int(release_date[:4])  except: release_year = None
ReleaseYear(release_date) ==
    LET r == IntParse(Prefix(release_date, 4))
    IN IF r.ok THEN PyInt(r.v) ELSE PyNone

\* ------------------------------------------------- pd.to_numeric / fillna
\* pd.to_numeric(x, errors='coerce'): numbers stay, numeric text is parsed,
\* everything else becomes NaN
ToNumeric(v) ==
    IF v.t = "int" THEN v
    ELSE IF v.t = "str" /\ IntParse(v.s).ok THEN PyInt(IntParse(v.s).v)
    ELSE PyNaN

FillNa(v, d) == IF v.t = "nan" THEN PyInt(d) ELSE v

\* as Coerce, without fillna(0)
CoerceNoFill(v) == ToNumeric(v)

\* line 124: pd.to_numeric(df[col], errors='coerce').fillna(0), for one cell
Coerce(v) == FillNa(ToNumeric(v), 0)

\* ---------------------------------------------------------------- str.join
RECURSIVE Join(_, _)
Join(sep, parts) ==
    IF Len(parts) = 0 THEN <<>>
    ELSE IF Len(parts) = 1 THEN parts[1]
    ELSE parts[1] \o sep \o Join(sep, Tail(parts))

\* ------------------------------------------------------- the catalog API
\* page size of playlist_tracks, and the literal of `len(...) < 100`
PageSize == 100

\* the one playlist the catalog knows
CatalogId == <<"37i9dQ">>

LinkHead == <<"https:", "/", "/", "open.", "spotify.com", "/", "playlist", "/">>

\* the substring main() looks for
LinkMark == <<"spotify.com", "/", "playlist", "/">>

\* query strings a shared link may carry (the first: none)
Queries == { <<>>, <<"?", "si=abc">>, <<"?", "next=", "/", "home">> }

\* what the user may type: playlist links, another site's link, nothing
Links ==
    {LinkHead \o CatalogId \o q : q \in Queries}
        \cup { <<"https:", "/", "/", "example.com", "/", "x">>, <<>> }

\* genre lists an artist may carry
GenreLists == { <<>>, << <<"rock">>, <<"pop">> >> }

\* the track of playlist entry i with the given fields
Track(i, artists, date, pop) ==
    [id |-> i, artists |-> artists, release_date |-> date, popularity |-> pop]

\* the kinds of entry at position i of a playlist: a removed track (None),
\* and tracks covering every release date, every popularity and both artist
\* lists
Entries(i) ==
    LET a == << [id |-> i] >>
        d1 == <<"1", "9", "9", "9", "-", "0", "5">>
    IN { [track |-> PyNone],
         [track |-> Track(i, a, d1, PyInt(87))],
         [track |-> Track(i, a, <<"1", "9", "9">>, Absent)],
         [track |-> Track(i, a, <<"n", "o", "n", "e">>, PyNone)],
         [track |-> Track(i, a, <<>>, PyStr(<<"n", "/", "a">>))],
         [track |-> Track(i, a, d1, PyInt(0))],
         [track |-> Track(i, <<>>, d1, PyInt(100))] }

\* playlists of exactly n entries
PlaylistsOf(n) == { p \in [1..n -> UNION {Entries(i) : i \in 1..n}] :
                      \A i \in 1..n : p[i] \in Entries(i) }

\* the playlist of n ordinary tracks
Uniform(n) ==
    [i \in 1..n |->
        [track |-> Track(i, << [id |-> i] >>,
                         <<"1", "9", "9", "9", "-", "0", "5">>, PyInt(87))]]

\* one page of the playlist: at most PageSize entries from offset on
Page(pl, off) == SubSeq(pl, off + 1, Min(off + PageSize, Len(pl)))

\* ------------------------------------------------------------------- state
VARIABLES
    pc,             \* where the run stands
    playlist,       \* catalog: the entries of the playlist CatalogId
    playlist_link,  \* main: the text of the sidebar input
    playlist_uri,   \* get_playlist_data: the parsed identifier
    metadata,       \* get_playlist_data: metadata dict, or unset
    results,        \* get_all_tracks: entries collected so far
    offset,         \* get_all_tracks: offset of the next page
    tracks_data,    \* get_playlist_data: what get_all_tracks returned
    idx,            \* get_playlist_data: position of the for loop, 1-based
    artist_info,    \* get_playlist_data: local, unbound until first assigned
    tracks,         \* get_playlist_data: rows built so far
    df,             \* main: the table get_playlist_data returned
    messages,       \* st.error texts shown, in order
    visualized,     \* visualize_data was called
    exc,            \* exception that left get_all_tracks / get_playlist_data
    requests,       \* log of the requests sent to the catalog API
    pageFail,       \* log: state of the collector when a page request failed
    lookups         \* log: per processed entry, what its artist lookup did

vars == <<pc, playlist, playlist_link, playlist_uri, metadata, results, offset,
          tracks_data, idx, artist_info, tracks, df, messages, visualized, exc,
          requests, pageFail, lookups>>

Unset == [t |-> "unset", rows |-> <<>>]
NoFail == [failed |-> FALSE, kind |-> "", results |-> <<>>, nreq |-> 0]
Unbound == [t |-> "unbound", genres |-> <<>>]

Req(op, uri, off, artist) == [op |-> op, uri |-> uri, offset |-> off, artist |-> artist]

\* the requests of one kind, in the order sent
OfOp(log, op) == SelectSeq(log, LAMBDA r : r.op = op)

Locals ==
    /\ metadata = Unset
    /\ results = <<>>
    /\ offset = 0
    /\ tracks_data = <<>>
    /\ idx = 1
    /\ artist_info = Unbound
    /\ tracks = <<>>
    /\ df = Unset
    /\ messages = <<>>
    /\ visualized = FALSE
    /\ exc = "none"
    /\ requests = <<>>
    /\ pageFail = NoFail
    /\ lookups = <<>>

\* a run of main() on any link, against any small playlist
Init ==
    /\ pc = "main"
    /\ playlist_link \in Links
    /\ playlist \in UNION {PlaylistsOf(n) : n \in 0..MaxTracks}
    /\ playlist_uri = <<>>
    /\ Locals

\* ------------------------------------------------------------------ main()
\* main, lines 185-192: nothing typed, nothing happens
MainNoLink ==
    /\ pc = "main"
    /\ playlist_link = <<>>
    /\ pc' = "done"
    /\ UNCHANGED <<playlist, playlist_link, playlist_uri, metadata, results,
                   offset, tracks_data, idx, artist_info, tracks, df, messages,
                   visualized, exc, requests, pageFail, lookups>>

\* main, lines 188-190: a link that is not a playlist link is rejected
MainRejectLink ==
    /\ pc = "main"
    /\ playlist_link # <<>>
    /\ ~Contains(playlist_link, LinkMark)
    /\ messages' = Append(messages, "Please enter a valid Spotify playlist link.")
    /\ pc' = "done"
    /\ UNCHANGED <<playlist, playlist_link, playlist_uri, metadata, results,
                   offset, tracks_data, idx, artist_info, tracks, df,
                   visualized, exc, requests, pageFail, lookups>>

\* main line 195 and get_playlist_data line 47: the identifier is parsed
ParseLink ==
    /\ pc = "main"
    /\ playlist_link # <<>>
    /\ Contains(playlist_link, LinkMark)
    /\ playlist_uri' = ParseUri(playlist_link)
    /\ pc' = "gpd_playlist"
    /\ UNCHANGED <<playlist, playlist_link, metadata, results, offset,
                   tracks_data, idx, artist_info, tracks, df, messages,
                   visualized, exc, requests, pageFail, lookups>>

\* as PlaylistRequestFails, but the run goes on to collect the tracks
PlaylistRequestContinues ==
    /\ pc = "gpd_playlist"
    /\ requests' = Append(requests, Req("playlist", playlist_uri, 0, 0))
    /\ messages' = Append(messages, "Could not retrieve playlist info")
    /\ pc' = "gat_loop"
    /\ UNCHANGED <<playlist, playlist_link, playlist_uri, metadata, results,
                   offset, tracks_data, idx, artist_info, tracks, df,
                   visualized, exc, pageFail, lookups>>

\* get_playlist_data lines 52-56 and main lines 196-199: sp.playlist raises
\* (always for an identifier the catalog does not know); the error is shown,
\* (None, None) is returned and main reports that there is nothing to show
PlaylistRequestFails ==
    /\ pc = "gpd_playlist"
    /\ requests' = Append(requests, Req("playlist", playlist_uri, 0, 0))
    /\ messages' = messages \o <<"Could not retrieve playlist info",
                                 "No data to visualize.">>
    /\ df' = [t |-> "None", rows |-> <<>>]
    /\ pc' = "done"
    /\ UNCHANGED <<playlist, playlist_link, playlist_uri, metadata, results,
                   offset, tracks_data, idx, artist_info, tracks, visualized,
                   exc, pageFail, lookups>>

\* get_playlist_data lines 53-68: sp.playlist answers, the metadata is kept
\* and get_all_tracks is entered (lines 27-28)
PlaylistRequestOk ==
    /\ pc = "gpd_playlist"
    /\ playlist_uri = CatalogId
    /\ requests' = Append(requests, Req("playlist", playlist_uri, 0, 0))
    /\ metadata' = [t |-> "dict", total |-> Len(playlist)]
    /\ results' = <<>>
    /\ offset' = 0
    /\ pc' = "gat_loop"
    /\ UNCHANGED <<playlist, playlist_link, playlist_uri, tracks_data, idx,
                   artist_info, tracks, df, messages, visualized, exc,
                   pageFail, lookups>>

\* ---------------------------------------------------------- get_all_tracks
\* a stand-alone call get_all_tracks(CatalogId) on a playlist of any length
InitCollect ==
    /\ pc = "gat_loop"
    /\ playlist_link = <<>>
    /\ playlist \in {Uniform(n) : n \in 0..MaxN}
    /\ playlist_uri = CatalogId
    /\ Locals

\* as LastPage, with <= for <
LastPageLeq(n) == n <= PageSize

\* line 36: a page shorter than the page size is the last one
LastPage(n) == n < PageSize

\* ways a page request fails: sp.playlist_tracks raises, returns None,
\* returns a dict without 'items'
PageFailures == {"raise", "none", "noitems"}

\* lines 29-38: a page arrives, is appended, and the loop goes on or ends
RequestPageOk ==
    /\ pc = "gat_loop"
    /\ LET items == Page(playlist, offset)
       IN /\ requests' = Append(requests, Req("playlist_tracks", playlist_uri, offset, 0))
          /\ results' = results \o items
          /\ IF LastPage(Len(items))
             THEN pc' = "gat_return" /\ offset' = offset
             ELSE pc' = "gat_loop" /\ offset' = offset + PageSize
    /\ UNCHANGED <<playlist, playlist_link, playlist_uri, metadata,
                   tracks_data, idx, artist_info, tracks, df, messages,
                   visualized, exc, pageFail, lookups>>

\* as RequestPageFails, without the except clause of lines 39-41
RequestPageRaises ==
    /\ pc = "gat_loop"
    /\ \E kind \in PageFailures :
          pageFail' = [failed |-> TRUE, kind |-> kind, results |-> results,
                       nreq |-> Len(OfOp(requests, "playlist_tracks")) + 1]
    /\ requests' = Append(requests, Req("playlist_tracks", playlist_uri, offset, 0))
    /\ IF pageFail'.kind = "raise"
       THEN /\ exc' = "Exception"
            /\ messages' = Append(messages, "An error occurred")
            /\ pc' = "done"
       ELSE /\ pc' = "gat_return"
            /\ UNCHANGED <<exc, messages>>
    /\ UNCHANGED <<playlist, playlist_link, playlist_uri, metadata, results,
                   offset, tracks_data, idx, artist_info, tracks, df,
                   visualized, lookups>>

\* lines 30-33 and 39-42: the request fails; every failure breaks the loop
\* and what was collected is returned
RequestPageFails ==
    /\ pc = "gat_loop"
    /\ \E kind \in PageFailures :
          pageFail' = [failed |-> TRUE, kind |-> kind, results |-> results,
                       nreq |-> Len(OfOp(requests, "playlist_tracks")) + 1]
    /\ requests' = Append(requests, Req("playlist_tracks", playlist_uri, offset, 0))
    /\ pc' = "gat_return"
    /\ UNCHANGED <<playlist, playlist_link, playlist_uri, metadata, results,
                   offset, tracks_data, idx, artist_info, tracks, df, messages,
                   visualized, exc, lookups>>

NextCollect == RequestPageOk \/ RequestPageFails

SpecCollect == InitCollect /\ [][NextCollect]_vars

\* ------------------------------------------------------- get_playlist_data
\* lines 68-74: with nothing collected an error is shown, an empty table is
\* returned and main (lines 196-199) reports that there is nothing to show;
\* otherwise the for loop is entered
CheckTracks ==
    /\ pc = "gat_return"
    /\ tracks_data' = results
    /\ IF results = <<>>
       THEN /\ messages' = messages \o <<"Could not retrieve tracks for this playlist.",
                                         "No data to visualize.">>
            /\ df' = [t |-> "frame", rows |-> <<>>]
            /\ pc' = "done"
       ELSE /\ pc' = "gpd_enrich"
            /\ UNCHANGED <<messages, df>>
    /\ idx' = 1
    /\ tracks' = <<>>
    /\ UNCHANGED <<playlist, playlist_link, playlist_uri, metadata, results,
                   offset, artist_info, visualized, exc, requests, pageFail,
                   lookups>>

\* bool(artist_info) for None or a catalog artist object (never an empty dict)
Truthy(ai) == ai.t = "dict"

\* line 109
GenresCell(ai) ==
    IF Truthy(ai) THEN Join(<<", ">>, ai.genres) ELSE <<"No Genres">>

\* lines 88-110: the row of one track, given the artist_info in scope
Row(track, ai) ==
    [Track_ID |-> track.id,
     Album_Release_Date |-> track.release_date,
     Release_Year |-> ReleaseYear(track.release_date),
     Popularity |-> DictGet(track.popularity, PyInt(0)),
     Genres |-> GenresCell(ai)]

\* as AddRow, with the new row put first
AddRowFirst(rows, row) == <<row>> \o rows

\* line 111
AddRow(rows, row) == Append(rows, row)

\* lines 88-111, and main lines 200-201 when line 109 reads an artist_info
\* that no iteration has assigned: the UnboundLocalError leaves
\* get_playlist_data and main shows it
FinishRow(track, ai) ==
    IF ai.t = "unbound"
    THEN /\ exc' = "UnboundLocalError"
         /\ messages' = Append(messages, "An error occurred")
         /\ pc' = "done"
         /\ UNCHANGED <<tracks, idx>>
    ELSE /\ tracks' = AddRow(tracks, Row(track, ai))
         /\ idx' = idx + 1
         /\ UNCHANGED <<exc, messages, pc>>

Looked(outcome, genres, issued) ==
    [outcome |-> outcome, genres |-> genres, issued |-> issued]

\* lines 75-78: a removed track is skipped
SkipNullTrack ==
    /\ pc = "gpd_enrich"
    /\ idx <= Len(tracks_data)
    /\ tracks_data[idx].track = PyNone
    /\ idx' = idx + 1
    /\ lookups' = Append(lookups, Looked("skipped", <<>>, FALSE))
    /\ UNCHANGED <<pc, playlist, playlist_link, playlist_uri, metadata,
                   results, offset, tracks_data, artist_info, tracks, df,
                   messages, visualized, exc, requests, pageFail>>

\* lines 80-111 for a track without artists: track["artists"][0] raises
\* IndexError before any request is made, the except clause leaves
\* artist_info as it was
EnrichNoArtist ==
    /\ pc = "gpd_enrich"
    /\ idx <= Len(tracks_data)
    /\ tracks_data[idx].track # PyNone
    /\ tracks_data[idx].track.artists = <<>>
    /\ lookups' = Append(lookups, Looked("noartist", <<>>, FALSE))
    /\ FinishRow(tracks_data[idx].track, artist_info)
    /\ UNCHANGED <<playlist, playlist_link, playlist_uri, metadata, results,
                   offset, tracks_data, artist_info, df, visualized, requests,
                   pageFail>>

\* lines 80-111: sp.artist raises; the except clause leaves artist_info as
\* it was
EnrichLookupFails ==
    /\ pc = "gpd_enrich"
    /\ idx <= Len(tracks_data)
    /\ tracks_data[idx].track # PyNone
    /\ tracks_data[idx].track.artists # <<>>
    /\ requests' = Append(requests,
                          Req("artist", <<>>, 0, tracks_data[idx].track.artists[1].id))
    /\ lookups' = Append(lookups, Looked("raise", <<>>, TRUE))
    /\ FinishRow(tracks_data[idx].track, artist_info)
    /\ UNCHANGED <<playlist, playlist_link, playlist_uri, metadata, results,
                   offset, tracks_data, artist_info, df, visualized, pageFail>>

\* what sp.artist may return: None, or an artist object with its genres
ArtistInfos ==
    {[t |-> "None", genres |-> <<>>]} \cup {[t |-> "dict", genres |-> g] : g \in GenreLists}

\* lines 80-111: sp.artist returns
EnrichLookupReturns ==
    /\ pc = "gpd_enrich"
    /\ idx <= Len(tracks_data)
    /\ tracks_data[idx].track # PyNone
    /\ tracks_data[idx].track.artists # <<>>
    /\ requests' = Append(requests,
                          Req("artist", <<>>, 0, tracks_data[idx].track.artists[1].id))
    /\ \E ai \in ArtistInfos :
          /\ artist_info' = ai
          /\ lookups' = Append(lookups, Looked(ai.t, ai.genres, TRUE))
          /\ FinishRow(tracks_data[idx].track, ai)
    /\ UNCHANGED <<playlist, playlist_link, playlist_uri, metadata, results,
                   offset, tracks_data, df, visualized, pageFail>>

\* lines 118-124: the table, its Popularity column made numeric
Frame(rows) ==
    [t |-> "frame",
     rows |-> [k \in 1..Len(rows) |->
                 [rows[k] EXCEPT !.Popularity = Coerce(rows[k].Popularity)]]]

\* lines 113-129 and main lines 196-199, after the loop: without rows an
\* error is shown and an empty table returned, which main reports; with rows
\* the table is returned and main calls visualize_data
AssembleTable ==
    /\ pc = "gpd_enrich"
    /\ idx > Len(tracks_data)
    /\ IF tracks = <<>>
       THEN /\ messages' = messages \o <<"No track data available to create DataFrame.",
                                         "No data to visualize.">>
            /\ df' = [t |-> "frame", rows |-> <<>>]
            /\ UNCHANGED visualized
       ELSE /\ df' = Frame(tracks)
            /\ visualized' = TRUE
            /\ UNCHANGED messages
    /\ pc' = "done"
    /\ UNCHANGED <<playlist, playlist_link, playlist_uri, metadata, results,
                   offset, tracks_data, idx, artist_info, tracks, exc,
                   requests, pageFail, lookups>>

Next ==
    \/ MainNoLink
    \/ MainRejectLink
    \/ ParseLink
    \/ PlaylistRequestFails
    \/ PlaylistRequestOk
    \/ RequestPageOk
    \/ RequestPageFails
    \/ CheckTracks
    \/ SkipNullTrack
    \/ EnrichNoArtist
    \/ EnrichLookupFails
    \/ EnrichLookupReturns
    \/ AssembleTable

Spec == Init /\ [][Next]_vars

\* ================================================================= claims
\* the entries with a track
NonNull(entries) == SelectSeq(entries, LAMBDA e : e.track # PyNone)

\* the entries whose track names at least one artist
WithArtist(entries) == SelectSeq(NonNull(entries), LAMBDA e : e.track.artists # <<>>)

PageRequests == OfOp(requests, "playlist_tracks")
ArtistRequests == OfOp(requests, "artist")

\* the playlist entry a row was built from (a track's id is its position)
Source(row) == tracks_data[row.Track_ID].track

\* the rows built for entry k of tracks_data
RowsOf(k) == { r \in 1..Len(tracks) : tracks[r].Track_ID = tracks_data[k].track.id }

\* ceil(N/100), or N/100 + 1 when N is a multiple of 100
ExpectedPages(N) ==
    IF N % PageSize = 0 THEN N \div PageSize + 1
    ELSE (N + PageSize - 1) \div PageSize

\* C1: for a playlist of N tracks served in pages of 100, get_all_tracks
\* never issues more than ceil(N/100) page requests (N/100 + 1 when N is a
\* multiple of 100), so it terminates, and when no request failed it returns
\* after exactly that many requests with exactly the N entries in playlist
\* order.  N ranges over 0..MaxN, which includes 0, 1, 99, 100, 101, 250.
C1_PaginationExact ==
    LET N == Len(playlist)
    IN /\ Len(PageRequests) <= ExpectedPages(N)
       /\ (pc # "gat_return" /\ ~pageFail.failed) => Len(PageRequests) < ExpectedPages(N)
       /\ (pc = "gat_return" /\ ~pageFail.failed) =>
             /\ Len(PageRequests) = ExpectedPages(N)
             /\ results = playlist

\* a playlist of exactly one full page was collected with two requests
C1_Witness ==
    /\ pc = "gat_return"
    /\ ~pageFail.failed
    /\ Len(playlist) = PageSize
    /\ Len(PageRequests) = 2
    /\ Len(results) = PageSize

\* C2: once a page request has failed (raised, returned None, or returned a
\* response without items) with K entries collected, get_all_tracks has
\* returned exactly those K entries, the failed request is the last page
\* request, and no exception has left get_all_tracks.
C2_FailureReturnsCollected ==
    pageFail.failed =>
        /\ pc = "gat_return"
        /\ results = pageFail.results
        /\ results = SubSeq(playlist, 1, Len(pageFail.results))
        /\ Len(PageRequests) = pageFail.nreq
        /\ exc = "none"

\* the third page request raised after two full pages were collected
C2_Witness ==
    /\ pageFail.failed
    /\ pageFail.kind = "raise"
    /\ pc = "gat_return"
    /\ Len(results) = 2 * PageSize
    /\ Len(PageRequests) = 3

\* C3: every track whose artist lookup raised has a row, that row's genre
\* string is "No Genres", and the batch was not aborted by an exception.
C3_FailedLookupKeepsRow ==
    \A k \in 1..Len(lookups) :
        lookups[k].outcome = "raise" =>
            /\ exc = "none"
            /\ RowsOf(k) # {}
            /\ \A r \in RowsOf(k) : tracks[r].Genres = <<"No Genres">>

\* C4: for a link .../playlist/<id>?<query>, whatever the query, every
\* playlist request carries exactly <id>.
C4_ParsedIdIsId ==
    \A q \in Queries :
        (q # <<>> /\ playlist_link = LinkHead \o CatalogId \o q) =>
            /\ pc # "main" => playlist_uri = CatalogId
            /\ \A k \in 1..Len(requests) :
                  requests[k].op \in {"playlist", "playlist_tracks"} =>
                      requests[k].uri = CatalogId

\* some of the first four characters is not a digit
NonNumericHead(date) == \E k \in 1..Min(4, Len(date)) : ~IsDigit(date[k])

\* C5: every row whose release date is shorter than four characters, or is
\* not numeric in its first four characters, has Release Year None, and no
\* exception is raised over it.
C5_BadDateYearUnknown ==
    \A r \in 1..Len(tracks) :
        LET date == Source(tracks[r]).release_date
        IN (Len(date) < 4 \/ NonNumericHead(date)) => tracks[r].Release_Year = PyNone

\* C6: in a returned table every row's Popularity is a number: 0 when the
\* track's popularity is absent, None or text that is not a number, and p
\* itself when it is a number p in 0..100.
C6_PopularityNumeric ==
    df.t = "frame" =>
        \A r \in 1..Len(df.rows) :
            LET src == Source(df.rows[r]).popularity
                cell == df.rows[r].Popularity
            IN /\ cell.t = "int"
               /\ (src.t = "int" /\ src.i \in 0..100) => cell.i = src.i
               /\ src.t \in {"absent", "None"} => cell.i = 0
               /\ (src.t = "str" /\ \A k \in 1..Len(src.s) : ~IsDigit(src.s[k])) => cell.i = 0

\* a table was shown holding a row of a track with popularity None, now 0,
\* and a row of a track with popularity 87, still 87
C6_Witness ==
    /\ visualized
    /\ \E r \in 1..Len(df.rows) :
          Source(df.rows[r]).popularity = PyNone /\ df.rows[r].Popularity = PyInt(0)
    /\ \E r \in 1..Len(df.rows) :
          Source(df.rows[r]).popularity = PyInt(87) /\ df.rows[r].Popularity = PyInt(87)

\* C7: the row of a track whose artist lookup returned an artist has the
\* artist's genres joined with ", " in their order, and "No Genres" when the
\* artist has no genres.
C7_GenresJoinedOrMarked ==
    \A k \in 1..Len(lookups) :
        lookups[k].outcome = "dict" =>
            \A r \in RowsOf(k) :
                tracks[r].Genres =
                    IF lookups[k].genres = <<>> THEN <<"No Genres">>
                    ELSE Join(<<", ">>, lookups[k].genres)

\* the playlist request was sent and brought no metadata
MetadataFailed == OfOp(requests, "playlist") # <<>> /\ metadata = Unset

\* C8: once the playlist-metadata request has failed, its error message has
\* been shown, the run is over, that request is the only request of the run
\* and visualize_data has not been called.
C8_MetadataFailureStops ==
    MetadataFailed =>
        /\ \E m \in 1..Len(messages) : messages[m] = "Could not retrieve playlist info"
        /\ pc = "done"
        /\ requests = <<Req("playlist", playlist_uri, 0, 0)>>
        /\ ~visualized
        /\ df.t = "None"

\* the metadata request for the right identifier failed and the run ended
C8_Witness ==
    /\ MetadataFailed
    /\ playlist_uri = CatalogId
    /\ playlist # <<>>
    /\ pc = "done"
    /\ messages = <<"Could not retrieve playlist info", "No data to visualize.">>

\* what the user is shown when the metadata request fails
MetadataFailureShown == <<"Could not retrieve playlist info", "No data to visualize.">>

\* what the user is shown when the first page request fails
FirstPageFailureShown ==
    <<"Could not retrieve tracks for this playlist.", "No data to visualize.">>

\* a run that ends after the first page request failed shows exactly
\* FirstPageFailureShown
FirstPageFailureShows ==
    (pc = "done" /\ pageFail.failed /\ pageFail.results = <<>>) =>
        messages = FirstPageFailureShown

\* the run ended with every request answered and no row to show
EmptyResultRun ==
    /\ pc = "done"
    /\ metadata # Unset
    /\ ~pageFail.failed
    /\ exc = "none"
    /\ NonNull(tracks_data) = <<>>

\* C9: a run that ends with an empty result (no track, or only removed
\* tracks) shows something, and what it shows differs from what is shown
\* when a fetch fails.
C9_EmptyDistinctFromFetchFailure ==
    EmptyResultRun =>
        /\ messages # <<>>
        /\ messages # FirstPageFailureShown
        /\ messages # MetadataFailureShown

\* the ids of the tracks of a sequence of entries, and of rows
EntryIds(entries) == [k \in 1..Len(entries) |-> entries[k].track.id]
RowIds(rows) == [k \in 1..Len(rows) |-> rows[k].Track_ID]

\* a non-empty table was returned
TableReturned == df.t = "frame" /\ df.rows # <<>>

\* rows: one per entry with a track, in collection order; requests: every
\* artist lookup after every page request
RowsInOrder ==
    /\ RowIds(df.rows) = EntryIds(NonNull(tracks_data))
    /\ tracks_data = results
    /\ \A a, b \in 1..Len(requests) :
          (a < b /\ requests[a].op = "artist") => requests[b].op = "artist"

\* C10 as stated: a returned non-empty table has one row per collected entry
\* with a track, in collection order, and one artist lookup was issued per
\* such entry, in that order, after the page collection.
C10_OneLookupPerEntry ==
    TableReturned =>
        /\ RowsInOrder
        /\ Len(ArtistRequests) = Len(NonNull(tracks_data))

\* C10, amended: a returned non-empty table has one row per collected entry
\* with a track, in collection order; one artist lookup was issued per such
\* entry that names at least one artist, for its first artist, in that
\* order, after the page collection; no lookup is issued for an entry whose
\* artist list is empty.
C10_OneLookupPerArtist ==
    TableReturned =>
        /\ RowsInOrder
        /\ [k \in 1..Len(ArtistRequests) |-> ArtistRequests[k].artist]
              = [k \in 1..Len(WithArtist(tracks_data)) |->
                    WithArtist(tracks_data)[k].track.artists[1].id]

\* a table of two rows was returned for three entries: a track with an
\* artist, a removed track, a track without artists; one lookup was issued
C10_Witness ==
    /\ TableReturned
    /\ Len(tracks_data) = 3
    /\ tracks_data[2].track = PyNone
    /\ tracks_data[1].track # PyNone
    /\ tracks_data[3].track # PyNone
    /\ tracks_data[3].track.artists = <<>>
    /\ RowIds(df.rows) = <<1, 3>>
    /\ Len(ArtistRequests) = 1

====
